---- MODULE Spec2Model ----
(***************************************************************************)
(* Model of the BER pretty-printer (src/ber/print.rs): the PrettyBer       *)
(* renderer, its flag set, the derivation of child renderers and the       *)
(* recursive Debug rendering into a text sink that may reject writes.      *)
(***************************************************************************)
EXTENDS Integers, Sequences, FiniteSets, TLC

VARIABLES rs, from, cur, sink, s, usink

vars == <<rs, from, cur, sink, s, usink>>

(***************************************************************************)
(* Bounds of the model.                                                    *)
(***************************************************************************)
MaxRenderers == 2
MaxIndent == 1
MaxInc == 2
MaxBudget == 8
MaxLen == 9

(***************************************************************************)
(* Program constants.                                                      *)
(***************************************************************************)
TagInteger == 2
TagSequence == 16
TagSet == 17
TagUniversalString == 28
MaxScalar == 1114111
SurrogateLo == 55296
SurrogateHi == 57343

PrettyPrinterFlag == {"ShowHeader"}

Bytes == {0, 16, 216}

(***************************************************************************)
(* The object tree (external data model): header and content.              *)
(***************************************************************************)
Header(class, constructed, tag) ==
    [class |-> class, constructed |-> constructed, tag |-> tag]

from_int_slice(i) ==
    [header |-> Header("Universal", FALSE, TagInteger),
     content |-> [kind |-> "Integer", i |-> i]]

from_obj(c) ==
    [header |-> Header("Universal",
                       c.kind \in {"Sequence", "Set"},
                       CASE c.kind = "Sequence" -> TagSequence
                         [] c.kind = "Set" -> TagSet
                         [] c.kind = "UniversalString" -> TagUniversalString
                         [] OTHER -> 0),
     content |-> c]

Node(tag, c) ==
    [header |-> Header("Universal", TRUE, tag), content |-> c]

Sequence(v) == [kind |-> "Sequence", v |-> v]
Set(v) == [kind |-> "Set", v |-> v]
Tagged(class, tag, obj) == [kind |-> "Tagged", class |-> class, tag |-> tag, obj |-> obj]
UniversalString(b) == [kind |-> "UniversalString", s |-> b]
Optional(o) == [kind |-> "Optional", o |-> o]

\* tests::test_pretty_print: the tree d
TestTree ==
    from_obj(Sequence(<<from_int_slice(<<1, 0, 1>>),
                        from_int_slice(<<1, 0, 1>>),
                        from_obj(Set(<<from_int_slice(<<1>>),
                                       from_int_slice(<<2>>)>>))>>))

UBad == from_obj(UniversalString(<<0, 0, 216, 0>>))
UBig == from_obj(UniversalString(<<0, 0, 0, 65, 0, 17, 0, 0>>))
UGood == from_obj(UniversalString(<<0, 0, 0, 65, 0, 16>>))

\* The trees handed to as_pretty.
Trees ==
    << TestTree,
       from_int_slice(<<1>>),
       from_obj([kind |-> "Null"]),
       UBad,
       Node(TagSequence, Set(<<from_int_slice(<<1>>)>>)),
       Node(TagSet, Sequence(<<UBad, from_int_slice(<<2>>)>>)),
       Node(TagInteger, Sequence(<<>>)),
       [header |-> Header("ContextSpecific", TRUE, 0),
        content |-> Tagged("ContextSpecific", 0, from_obj(Set(<<UBig, UGood>>)))],
       from_obj(Set(<<[header |-> Header("ContextSpecific", TRUE, 1),
                       content |-> Tagged("ContextSpecific", 1, from_int_slice(<<1>>))],
                      from_obj(Optional(<<>>))>>)),
       from_obj(Optional(<<from_int_slice(<<2>>)>>)) >>

\* The nodes a renderer of obj derives children for (fmt, lines 107 and 119).
Members(obj) ==
    CASE obj.content.kind \in {"Set", "Sequence"} -> obj.content.v
      [] obj.content.kind = "Tagged" -> <<obj.content.obj>>
      [] OTHER -> <<>>

(***************************************************************************)
(* PrettyBer: construction, configuration, derivation.                     *)
(***************************************************************************)
as_pretty(self, indent, increment) ==
    [obj |-> self, indent |-> indent, inc |-> increment, flags |-> <<>>]

contains(flags, flag) == \E k \in 1..Len(flags) : flags[k] = flag

\* set_flag without the contains check
set_flag_push(self, flag) ==
    [self EXCEPT !.flags = Append(@, flag)]

set_flag(self, flag) ==
    IF ~contains(self.flags, flag)
    THEN [self EXCEPT !.flags = Append(@, flag)]
    ELSE self

\* next_indent that keeps the parent's depth
next_indent_same_depth(self, obj) ==
    [obj |-> obj, indent |-> self.indent, inc |-> self.inc, flags |-> self.flags]

\* next_indent that starts from an empty flag set
next_indent_no_flags(self, obj) ==
    [obj |-> obj, indent |-> self.indent + self.inc, inc |-> self.inc, flags |-> <<>>]

next_indent(self, obj) ==
    [obj |-> obj, indent |-> self.indent + self.inc, inc |-> self.inc,
     flags |-> self.flags]

(***************************************************************************)
(* The text sink behind fmt::Formatter.  A limited sink accepts `budget`   *)
(* writes and rejects every later one, an unlimited one (a String) accepts *)
(* them all; `attempts` counts the write!/writeln! calls made on it and    *)
(* `err` is the fmt::Result handed back to the caller.                     *)
(***************************************************************************)
NewSink(limited, budget) ==
    [out |-> <<>>, attempts |-> 0, limited |-> limited, budget |-> budget, err |-> FALSE]

Write(f, x) ==
    IF ~f.limited \/ f.attempts < f.budget
    THEN [f EXCEPT !.out = Append(@, x), !.attempts = @ + 1]
    ELSE [f EXCEPT !.attempts = @ + 1, !.err = TRUE]

\* "{:1$}" of " " with a width: the one-character string padded with spaces.
Pad(width) == [w |-> "pad", n |-> IF width > 1 THEN width ELSE 1]

\* "[c:{:?}, s:{}, t:{}] "
Hdr(header) ==
    [w |-> "hdr", class |-> header.class, constructed |-> header.constructed,
     tag |-> header.tag]

\* writeln!: the token followed by a line break
Ln(tok) == [w |-> "ln", tok |-> tok]

(***************************************************************************)
(* print_utf32_string_with_type                                            *)
(***************************************************************************)
RECURSIVE chunks_exact(_)
chunks_exact(b) ==
    IF Len(b) < 4 THEN <<>>
    ELSE <<SubSeq(b, 1, 4)>> \o chunks_exact(SubSeq(b, 5, Len(b)))

\* the four bytes read little-endian
from_le_bytes(a) == [hi |-> a[4] * 256 + a[3], lo |-> a[2] * 256 + a[1]]

\* A u32 is kept as its two 16-bit halves.
from_be_bytes(a) == [hi |-> a[1] * 256 + a[2], lo |-> a[3] * 256 + a[4]]

\* core::char::from_u32: <<c>> for Some(c), <<>> for None
from_u32(u) ==
    IF u.hi > MaxScalar \div 65536 \/ (u.hi = 0 /\ u.lo >= SurrogateLo /\ u.lo <= SurrogateHi)
    THEN <<>>
    ELSE <<u.hi * 65536 + u.lo>>

\* .map(..).collect::<Option<Vec<char>>>(): [some, b]
RECURSIVE collect(_)
collect(groups) ==
    IF groups = <<>> THEN [some |-> TRUE, b |-> <<>>]
    ELSE LET c == from_u32(from_be_bytes(Head(groups)))
             rest == collect(Tail(groups))
         IN IF c = <<>> \/ ~rest.some
            THEN [some |-> FALSE, b |-> <<>>]
            ELSE [some |-> TRUE, b |-> c \o rest.b]

\* print_utf32_string_with_type that returns the decode failure as an error
print_utf32_string_with_type_err(f, b, ty) ==
    LET chars == collect(chunks_exact(b))
    IN IF chars.some
       THEN Write(f, Ln([ty |-> ty, text |-> chars.b]))
       ELSE [f EXCEPT !.err = TRUE]

print_utf32_string_with_type(f, b, ty) ==
    LET chars == collect(chunks_exact(b))
    IN IF chars.some
       THEN Write(f, Ln([ty |-> ty, text |-> chars.b]))
       ELSE Write(f, Ln([ty |-> ty, raw |-> b, note |-> "<error decoding utf32 string>"]))

(***************************************************************************)
(* impl fmt::Debug for PrettyBer                                           *)
(***************************************************************************)
\* lines 57-59
fmt_indent(self, f) ==
    IF self.indent > 0 THEN Write(f, Pad(self.indent)) ELSE f

\* the header prefix left out
fmt_header_never(self, f) == f

\* lines 60-62
fmt_header(self, f) ==
    IF contains(self.flags, "ShowHeader") THEN Write(f, Hdr(self.obj.header)) ELSE f

\* the label taken from the content variant
SetLabel_from_content(obj) == obj.content.kind

\* line 116
SetLabel(obj) == IF obj.header.tag = TagSequence THEN "Sequence" ELSE "Set"

\* the closing brace indented like the inner node
fmt_tagged_close_deeper(self, f) ==
    LET f1 == IF self.indent + self.inc > 0 THEN Write(f, Pad(self.indent + self.inc)) ELSE f
    IN IF f1.err THEN f1 ELSE Write(f1, Ln([ty |-> "}"]))

\* lines 108-112
fmt_tagged_close(self, f) ==
    LET f1 == IF self.indent > 0 THEN Write(f, Pad(self.indent)) ELSE f
    IN IF f1.err THEN f1 ELSE Write(f1, Ln([ty |-> "}"]))

\* the closing bracket padded without the indent > 0 test
fmt_set_close_always_pad(self, f) ==
    LET f1 == Write(f, Pad(self.indent))
    IN IF f1.err THEN f1 ELSE Write(f1, Ln([ty |-> "]"]))

\* the closing bracket written although the padding was rejected
fmt_set_close_ignore_err(self, f) ==
    LET f1 == IF self.indent > 0 THEN Write(f, Pad(self.indent)) ELSE f
    IN Write(f1, Ln([ty |-> "]"]))

\* lines 121-125
fmt_set_close(self, f) ==
    LET f1 == IF self.indent > 0 THEN Write(f, Pad(self.indent)) ELSE f
    IN IF f1.err THEN f1 ELSE Write(f1, Ln([ty |-> "]"]))

\* the single-line arms of the match (lines 75-104, 127)
fmt_leaf(c, f) ==
    CASE c.kind \in {"EndOfContent", "Null"} -> Write(f, Ln([ty |-> c.kind]))
      [] c.kind = "Boolean" -> Write(f, Ln([ty |-> "Boolean", b |-> c.b]))
      [] c.kind \in {"Integer", "OctetString"} -> Write(f, Ln([ty |-> c.kind, hex |-> c.i]))
      [] c.kind = "BitString" -> Write(f, Ln([ty |-> "BitString", u |-> c.u, hex |-> c.i]))
      [] c.kind \in {"Enum", "OID", "RelativeOID"} -> Write(f, Ln([ty |-> c.kind, val |-> c.val]))
      [] c.kind \in {"GeneralizedTime", "UTCTime", "VisibleString", "GeneralString",
                     "GraphicString", "PrintableString", "NumericString", "UTF8String",
                     "IA5String", "ObjectDescriptor", "BmpString"}
           -> Write(f, Ln([ty |-> c.kind, quoted |-> TRUE, str |-> c.str]))
      [] c.kind \in {"T61String", "VideotexString"}
           -> Write(f, Ln([ty |-> c.kind, quoted |-> FALSE, str |-> c.str]))
      [] c.kind = "UniversalString" -> print_utf32_string_with_type(f, c.s, "UniversalString")
      [] c.kind = "Optional"
           -> IF c.o # <<>> THEN Write(f, Ln([ty |-> "OPTION", obj |-> c.o[1]]))
              ELSE Write(f, Ln([ty |-> "NONE"]))
      [] c.kind = "Unknown"
           -> Write(f, Ln([ty |-> "Unknown", class |-> c.class, tag |-> c.tag, hex |-> c.i]))

RECURSIVE fmt(_, _)
RECURSIVE fmt_members(_, _, _)

\* lines 118-120: for o in v { write!(f, "{:?}", self.next_indent(o))?; }
fmt_members(self, v, f) ==
    IF v = <<>> THEN f
    ELSE LET f1 == fmt(next_indent(self, Head(v)), f)
         IN IF f1.err THEN f1 ELSE fmt_members(self, Tail(v), f1)

fmt(self, f) ==
    LET c == self.obj.content
        f1 == fmt_indent(self, f)
    IN IF f1.err THEN f1 ELSE
       LET f2 == fmt_header(self, f1)
       IN IF f2.err THEN f2 ELSE
          CASE c.kind = "Tagged" ->
                 LET f3 == Write(f2, Ln([ty |-> "ContextSpecific", class |-> c.class, tag |-> c.tag]))
                 IN IF f3.err THEN f3 ELSE
                    LET f4 == fmt(next_indent(self, c.obj), f3)
                    IN IF f4.err THEN f4 ELSE fmt_tagged_close(self, f4)
            [] c.kind \in {"Set", "Sequence"} ->
                 LET f3 == Write(f2, Ln([ty |-> "[", label |-> SetLabel(self.obj)]))
                 IN IF f3.err THEN f3 ELSE
                    LET f4 == fmt_members(self, c.v, f3)
                    IN IF f4.err THEN f4 ELSE fmt_set_close(self, f4)
            [] OTHER -> fmt_leaf(c, f2)

(***************************************************************************)
(* The renderers in existence and the operations on them.                  *)
(*   rs    the PrettyBer values created so far                             *)
(*   from  for each of them, the renderer it was derived from (0: none)    *)
(*   cur   the renderer of the latest render, <<>> when there was none     *)
(*   sink  the sink of the latest render                                   *)
(*   s, usink  a UniversalString's bytes and the sink it was printed to    *)
(***************************************************************************)
Init ==
    /\ \E t \in 1..Len(Trees), indent \in 0..MaxIndent, increment \in 0..MaxInc :
          rs = <<as_pretty(Trees[t], indent, increment)>>
    /\ from = <<0>>
    /\ cur = <<>>
    /\ sink = NewSink(TRUE, 0)
    /\ s = <<>>
    /\ usink = NewSink(TRUE, 0)

SetFlag(i, flag) ==
    /\ rs' = [rs EXCEPT ![i] = set_flag(rs[i], flag)]
    /\ UNCHANGED <<from, cur, sink, s, usink>>

NextIndent(i, k) ==
    /\ Len(rs) < MaxRenderers
    /\ k \in 1..Len(Members(rs[i].obj))
    /\ rs' = Append(rs, next_indent(rs[i], Members(rs[i].obj)[k]))
    /\ from' = Append(from, i)
    /\ UNCHANGED <<cur, sink, s, usink>>

Render(i, limited, budget) ==
    /\ limited \/ budget = 0
    /\ cur' = <<rs[i]>>
    /\ sink' = fmt(rs[i], NewSink(limited, budget))
    /\ UNCHANGED <<rs, from, s, usink>>

Next ==
    \/ \E i \in 1..Len(rs), flag \in PrettyPrinterFlag : SetFlag(i, flag)
    \/ \E i \in 1..Len(rs) : \E k \in 1..Len(Members(rs[i].obj)) : NextIndent(i, k)
    \/ \E i \in 1..Len(rs), limited \in BOOLEAN, budget \in 0..MaxBudget :
          Render(i, limited, budget)

Spec == Init /\ [][Next]_vars

(***************************************************************************)
(* A UniversalString on its own: the bytes s, printed to usink.            *)
(***************************************************************************)
InitU ==
    /\ rs = <<>>
    /\ from = <<>>
    /\ cur = <<>>
    /\ sink = NewSink(TRUE, 0)
    /\ s \in UNION {[1..n -> Bytes] : n \in 0..MaxLen}
    /\ usink = NewSink(TRUE, 0)

PrintUtf32(limited) ==
    /\ usink.attempts = 0
    /\ usink' = print_utf32_string_with_type(NewSink(limited, 0), s, "UniversalString")
    /\ UNCHANGED <<rs, from, cur, sink, s>>

NextU == \E limited \in BOOLEAN : PrintUtf32(limited)

SpecU == InitU /\ [][NextU]_vars

(***************************************************************************)
(* Reading the text of a sink: its lines, their leading spaces, tokens.    *)
(***************************************************************************)
RECURSIVE SplitLines(_, _)
SplitLines(out, line) ==
    IF out = <<>> THEN (IF line = <<>> THEN <<>> ELSE <<line>>)
    ELSE IF Head(out).w = "ln"
         THEN <<Append(line, Head(out))>> \o SplitLines(Tail(out), <<>>)
         ELSE SplitLines(Tail(out), Append(line, Head(out)))

Lines(out) == SplitLines(out, <<>>)

LeadingSpaces(line) == IF line[1].w = "pad" THEN line[1].n ELSE 0

Token(line) == line[Len(line)].tok

HasHeader(line) == \E k \in 1..Len(line) : line[k].w = "hdr"

IsClosing(line) == Token(line).ty \in {"]", "}"}

\* The latest render ran to completion.
Completed == cur # <<>> /\ ~sink.err

\* The text a renderer produces on a sink that accepts every write.
Text(r) == fmt(r, NewSink(FALSE, 0)).out

\* spaces of indentation as written to the sink
Spaces(d) == IF d > 0 THEN <<[w |-> "pad", n |-> d]>> ELSE <<>>

\* the writes that start a renderer's first line
Prefix(r) ==
    Spaces(r.indent) \o
    (IF "ShowHeader" \in {r.flags[k] : k \in 1..Len(r.flags)}
     THEN <<[w |-> "hdr", class |-> r.obj.header.class,
             constructed |-> r.obj.header.constructed, tag |-> r.obj.header.tag]>>
     ELSE <<>>)

\* a renderer of node m one level below r
Child(r, m) == [obj |-> m, indent |-> r.indent + r.inc, inc |-> r.inc, flags |-> r.flags]

RECURSIVE TextOfAll(_, _)
TextOfAll(r, v) ==
    IF v = <<>> THEN <<>> ELSE Text(Child(r, Head(v))) \o TextOfAll(r, Tail(v))

(***************************************************************************)
(* C1: a Set/Sequence node rendered at depth d with increment inc is one   *)
(* opening line `<Label>[` at depth d, then the complete rendering of each *)
(* member, in the stored order, by a child renderer at depth d+inc, then   *)
(* one closing line `]` preceded by exactly d spaces (none when d = 0).    *)
(* The tree of test_pretty_print rendered with as_pretty(0, 2) gives eight *)
(* lines indented 0, 2, 2, 2, 4, 4, 2, 0 and labelled Sequence[, Integer,  *)
(* Integer, Set[, Integer, Integer, ], ].                                  *)
(***************************************************************************)
LineLabel(line) ==
    IF Token(line).ty = "[" THEN Token(line).label ELSE Token(line).ty

C1_SetLayout ==
    Completed =>
      LET r == cur[1]
          lines == Lines(sink.out)
      IN /\ r.obj.content.kind \in {"Set", "Sequence"} =>
              \E label \in {"Sequence", "Set"} :
                 sink.out = Prefix(r) \o <<[w |-> "ln", tok |-> [ty |-> "[", label |-> label]]>>
                            \o TextOfAll(r, r.obj.content.v)
                            \o Spaces(r.indent) \o <<[w |-> "ln", tok |-> [ty |-> "]"]]>>
         /\ (r.obj = TestTree /\ r.indent = 0 /\ r.inc = 2 /\ r.flags = <<>>) =>
              /\ Len(lines) = 8
              /\ [k \in 1..8 |-> LeadingSpaces(lines[k])] = <<0, 2, 2, 2, 4, 4, 2, 0>>
              /\ [k \in 1..8 |-> LineLabel(lines[k])]
                   = <<"Sequence", "Integer", "Integer", "Set", "Integer", "Integer", "]", "]">>

C1_Witness ==
    /\ Completed
    /\ cur[1] = [obj |-> TestTree, indent |-> 0, inc |-> 2, flags |-> <<>>]
    /\ Len(Lines(sink.out)) = 8

(***************************************************************************)
(* C4: a Tagged node rendered at depth d with increment inc is the line    *)
(* `ContextSpecific [<class> <tag>] {` at depth d, then the complete       *)
(* rendering of the inner node by a child renderer at depth d+inc, then a  *)
(* closing line `}` preceded by exactly d spaces (none when d = 0).        *)
(***************************************************************************)
C4_TaggedLayout ==
    (Completed /\ cur[1].obj.content.kind = "Tagged") =>
      LET r == cur[1]
          c == r.obj.content
      IN sink.out = Prefix(r)
                    \o <<[w |-> "ln", tok |-> [ty |-> "ContextSpecific", class |-> c.class, tag |-> c.tag]]>>
                    \o Text(Child(r, c.obj))
                    \o Spaces(r.indent) \o <<[w |-> "ln", tok |-> [ty |-> "}"]]>>

C4_Witness ==
    /\ Completed
    /\ cur[1].obj.content.kind = "Tagged"
    /\ cur[1].indent = 1
    /\ cur[1].inc = 2
    /\ LeadingSpaces(Lines(sink.out)[Len(Lines(sink.out))]) = 1
    /\ LeadingSpaces(Lines(sink.out)[2]) = 3

(***************************************************************************)
(* C10: the opening label of a Set/Sequence node is chosen from the header *)
(* tag alone: `Sequence` exactly when the tag is the sequence tag, `Set`   *)
(* for every other tag, whatever the content variant.                      *)
(***************************************************************************)
C10_LabelFromTag ==
    (cur # <<>> /\ cur[1].obj.content.kind \in {"Set", "Sequence"} /\ Lines(sink.out) # <<>>
       /\ Lines(sink.out)[1][Len(Lines(sink.out)[1])].w = "ln") =>
      LET tok == Token(Lines(sink.out)[1])
      IN /\ tok.ty = "["
         /\ (tok.label = "Sequence") <=> (cur[1].obj.header.tag = 16)
         /\ (tok.label = "Set") <=> (cur[1].obj.header.tag # 16)

C10_Witness ==
    /\ Completed
    /\ cur[1].obj.content.kind = "Set"
    /\ cur[1].obj.header.tag = 16
    /\ Token(Lines(sink.out)[1]).label = "Sequence"

(***************************************************************************)
(* C2: with ShowHeader set on a renderer, every line it renders (its own   *)
(* and those of all derived children) is the indentation, then the header  *)
(* prefix, then the content token; no line lacks the header prefix.        *)
(***************************************************************************)
ShowsHeader(r) == \E k \in 1..Len(r.flags) : r.flags[k] = "ShowHeader"

HeaderLine(line) ==
    \/ Len(line) = 2 /\ line[1].w = "hdr" /\ line[2].w = "ln"
    \/ Len(line) = 3 /\ line[1].w = "pad" /\ line[2].w = "hdr" /\ line[3].w = "ln"

BareLine(line) ==
    \/ Len(line) = 1 /\ line[1].w = "ln"
    \/ Len(line) = 2 /\ line[1].w = "pad" /\ line[2].w = "ln"

C2_EveryLineHasHeader ==
    (Completed /\ ShowsHeader(cur[1])) =>
      \A k \in 1..Len(Lines(sink.out)) : HeaderLine(Lines(sink.out)[k])

\* C2 as amended: with ShowHeader set, every line that starts a node (a leaf
\* line, `<Label>[` or `ContextSpecific [..] {`) is the indentation, the
\* header prefix, then the content token, one such line per node of the tree;
\* the closing lines `]` and `}` are the indentation and the bracket only and
\* carry no header prefix.
RECURSIVE NodeCount(_)
RECURSIVE NodeCountAll(_)
NodeCountAll(v) == IF v = <<>> THEN 0 ELSE NodeCount(Head(v)) + NodeCountAll(Tail(v))
NodeCount(obj) == 1 + NodeCountAll(Members(obj))

C2_HeaderOnNodeLines ==
    (Completed /\ ShowsHeader(cur[1])) =>
      LET lines == Lines(sink.out)
      IN /\ \A k \in 1..Len(lines) :
              IF IsClosing(lines[k]) THEN BareLine(lines[k]) ELSE HeaderLine(lines[k])
         /\ Cardinality({k \in 1..Len(lines) : HasHeader(lines[k])}) = NodeCount(cur[1].obj)
         /\ lines[1][Len(lines[1]) - 1] =
              [w |-> "hdr", class |-> cur[1].obj.header.class,
               constructed |-> cur[1].obj.header.constructed, tag |-> cur[1].obj.header.tag]

C2_Witness ==
    /\ Completed
    /\ ShowsHeader(cur[1])
    /\ cur[1].obj = TestTree
    /\ cur[1].indent = 1
    /\ Cardinality({k \in 1..Len(Lines(sink.out)) : HasHeader(Lines(sink.out)[k])}) = 6
    /\ Len(Lines(sink.out)) = 8

(***************************************************************************)
(* C3: a renderer reached from a root as_pretty(indent, inc) through k     *)
(* derivations has depth indent + k*inc, and the first line it emits       *)
(* begins with exactly that many spaces (none when the depth is 0).        *)
(***************************************************************************)
RECURSIVE Derivations(_)
Derivations(i) == IF from[i] = 0 THEN 0 ELSE 1 + Derivations(from[i])

RECURSIVE RootOf(_)
RootOf(i) == IF from[i] = 0 THEN i ELSE RootOf(from[i])

\* the leading spaces of the lines of a node k derivations below (indent, inc)
RECURSIVE ExpectedIndents(_, _, _, _)
RECURSIVE ExpectedIndentsAll(_, _, _, _)
ExpectedIndentsAll(v, indent, inc, k) ==
    IF v = <<>> THEN <<>>
    ELSE ExpectedIndents(Head(v), indent, inc, k) \o ExpectedIndentsAll(Tail(v), indent, inc, k)
ExpectedIndents(obj, indent, inc, k) ==
    IF obj.content.kind \in {"Set", "Sequence", "Tagged"}
    THEN <<indent + k * inc>> \o ExpectedIndentsAll(Members(obj), indent, inc, k + 1)
         \o <<indent + k * inc>>
    ELSE <<indent + k * inc>>

C3_DepthOfDescendants ==
    /\ \A i \in 1..Len(rs) :
          /\ rs[i].indent = rs[RootOf(i)].indent + Derivations(i) * rs[RootOf(i)].inc
          /\ rs[i].inc = rs[RootOf(i)].inc
          /\ from[i] # 0 => rs[i].indent >= rs[from[i]].indent
    /\ (cur # <<>> /\ sink.out # <<>>) =>
          IF cur[1].indent > 0
          THEN sink.out[1] = [w |-> "pad", n |-> cur[1].indent]
          ELSE sink.out[1].w # "pad"
    /\ Completed =>
          LET lines == Lines(sink.out)
          IN [k \in 1..Len(lines) |-> LeadingSpaces(lines[k])]
               = ExpectedIndents(cur[1].obj, cur[1].indent, cur[1].inc, 0)

C3_Witness ==
    /\ Len(rs) = 2
    /\ from[2] = 1
    /\ rs[1].indent = 1
    /\ rs[1].inc = 2
    /\ rs[2].indent = 3
    /\ Completed
    /\ cur[1] = rs[2]
    /\ cur[1].obj.content.kind = "Set"
    /\ [k \in 1..Len(Lines(sink.out)) |-> LeadingSpaces(Lines(sink.out)[k])] = <<3, 5, 5, 3>>

(***************************************************************************)
(* C5: a derived child's flag set is the parent's flag set at the moment   *)
(* of the derivation; a later set_flag on the parent leaves the child's    *)
(* flags unchanged and a set_flag on the child leaves the parent's.        *)
(***************************************************************************)
C5_FlagsCopiedOnDerive ==
    [][ /\ Len(rs') >= Len(rs)
        /\ \A i \in 1..Len(rs') :
             IF i <= Len(rs)
             THEN rs'[i].flags # rs[i].flags =>
                    \A j \in (1..Len(rs)) \ {i} : rs'[j].flags = rs[j].flags
             ELSE /\ from'[i] \in 1..Len(rs)
                  /\ rs'[i].flags = rs[from'[i]].flags
                  /\ \A j \in 1..Len(rs) : rs'[j] = rs[j] ]_vars

C5_Witness ==
    /\ Len(rs) = 2
    /\ from[2] = 1
    /\ ShowsHeader(rs[1])
    /\ ~ShowsHeader(rs[2])

(***************************************************************************)
(* C9: every renderer's flag set is duplicate-free: empty right after      *)
(* as_pretty; set_flag of a flag already present changes nothing, of an    *)
(* absent flag adds exactly that flag; no operation removes a flag.        *)
(***************************************************************************)
FlagSet(r) == {r.flags[k] : k \in 1..Len(r.flags)}

C9_FlagsDuplicateFree ==
    /\ \A i \in 1..Len(rs) : rs[i].flags = <<>>
    /\ [](\A i \in 1..Len(rs) : Cardinality(FlagSet(rs[i])) = Len(rs[i].flags))
    /\ [][ \A i \in 1..Len(rs) :
             /\ FlagSet(rs[i]) \subseteq FlagSet(rs'[i])
             /\ Cardinality(FlagSet(rs'[i]) \ FlagSet(rs[i])) <= 1
             /\ FlagSet(rs'[i]) = FlagSet(rs[i]) => rs'[i].flags = rs[i].flags ]_vars

C9_Witness ==
    /\ Len(rs) = 2
    /\ rs[1].flags = <<"ShowHeader">>
    /\ rs[2].flags = <<"ShowHeader">>
    /\ Completed

(***************************************************************************)
(* C6: when the sink rejects a write the render returns the error at once: *)
(* the text is the part written before the rejected write and no write is  *)
(* attempted after it; when no write is rejected the render runs to        *)
(* completion and returns success.                                         *)
(***************************************************************************)
C6_AbortOnSinkFailure ==
    cur # <<>> =>
      LET full == Text(cur[1])
      IN IF sink.limited /\ sink.budget < Len(full)
         THEN /\ sink.err
              /\ sink.attempts = sink.budget + 1
              /\ sink.out = SubSeq(full, 1, sink.budget)
         ELSE /\ ~sink.err
              /\ sink.attempts = Len(full)
              /\ sink.out = full

\* the sink rejected the padding of the closing line of a tagged node: the
\* `}` was not attempted
C6_Witness ==
    /\ cur # <<>>
    /\ sink.err
    /\ cur[1].obj.content.kind = "Tagged"
    /\ cur[1].obj.content.obj.content.kind = "Integer"
    /\ cur[1].indent = 1
    /\ sink.budget = 4
    /\ sink.attempts = 5
    /\ Len(Lines(sink.out)) = 2

(***************************************************************************)
(* C8: a UniversalString with a complete 4-byte group that is not a        *)
(* Unicode scalar value renders as the single line                         *)
(* `UniversalString(<raw bytes>) <error decoding utf32 string>` and the    *)
(* render succeeds: the decode failure is never returned as an error and   *)
(* the following siblings and the closing lines are still rendered.        *)
(***************************************************************************)
BadGroup(b, g) ==
    LET x == b[4 * g - 3] * 256 + b[4 * g - 2]
        y == b[4 * g - 1] * 256 + b[4 * g]
    IN x > 16 \/ (x = 0 /\ y >= 55296 /\ y <= 57343)

Undecodable(obj) ==
    /\ obj.content.kind = "UniversalString"
    /\ \E g \in 1..(Len(obj.content.s) \div 4) : BadGroup(obj.content.s, g)

RECURSIVE LineCount(_)
RECURSIVE LineCountAll(_)
LineCountAll(v) == IF v = <<>> THEN 0 ELSE LineCount(Head(v)) + LineCountAll(Tail(v))
LineCount(obj) ==
    IF obj.content.kind \in {"Set", "Sequence", "Tagged"}
    THEN 2 + LineCountAll(Members(obj))
    ELSE 1

\* the nodes of a tree in the order they are rendered
RECURSIVE Preorder(_)
RECURSIVE PreorderAll(_)
PreorderAll(v) == IF v = <<>> THEN <<>> ELSE Preorder(Head(v)) \o PreorderAll(Tail(v))
Preorder(obj) == <<obj>> \o PreorderAll(Members(obj))

ErrorLine(raw) ==
    [w |-> "ln", tok |-> [ty |-> "UniversalString", raw |-> raw,
                          note |-> "<error decoding utf32 string>"]]

C8_DecodeFailureInBand ==
    cur # <<>> =>
      LET lines == Lines(sink.out)
          nodes == Preorder(cur[1].obj)
          open == {k \in 1..Len(lines) : ~IsClosing(lines[k])}
          nth(n) == CHOOSE k \in open : Cardinality({j \in open : j < k}) = n - 1
      IN /\ sink.err => sink.attempts > sink.budget
         /\ ~sink.limited =>
              /\ ~sink.err
              /\ Len(lines) = LineCount(cur[1].obj)
              /\ Cardinality(open) = Len(nodes)
              /\ \A n \in 1..Len(nodes) :
                   Undecodable(nodes[n]) =>
                     lines[nth(n)][Len(lines[nth(n)])] = ErrorLine(nodes[n].content.s)

C8_Witness ==
    /\ Completed
    /\ ~sink.limited
    /\ cur[1].obj.content.kind = "Sequence"
    /\ Len(cur[1].obj.content.v) = 2
    /\ Undecodable(cur[1].obj.content.v[1])
    /\ Len(Lines(sink.out)) = 4
    /\ Token(Lines(sink.out)[2]).ty = "UniversalString"
    /\ Token(Lines(sink.out)[3]).ty = "Integer"
    /\ Token(Lines(sink.out)[4]).ty = "]"

(***************************************************************************)
(* C7: a UniversalString of n bytes is decoded from its floor(n/4)         *)
(* complete 4-byte big-endian groups only; when each is a Unicode scalar   *)
(* value the line is `UniversalString("<text>")` with the decoded          *)
(* characters in order; 1 to 3 trailing bytes are ignored, so fewer than 4 *)
(* bytes give `UniversalString("")`.                                       *)
(***************************************************************************)
Scalar(b, g) == b[4 * g - 2] * 65536 + b[4 * g - 1] * 256 + b[4 * g]

C7_Utf32Decoding ==
    (usink.attempts = 1 /\ ~usink.err) =>
      LET groups == Len(s) \div 4
      IN (\A g \in 1..groups :
             /\ s[4 * g - 3] = 0
             /\ Scalar(s, g) <= 1114111
             /\ ~(Scalar(s, g) >= 55296 /\ Scalar(s, g) <= 57343))
         => /\ usink.out = <<[w |-> "ln",
                              tok |-> [ty |-> "UniversalString",
                                       text |-> [g \in 1..groups |-> Scalar(s, g)]]]>>
            /\ usink.out = print_utf32_string_with_type(NewSink(FALSE, 0),
                              SubSeq(s, 1, 4 * groups), "UniversalString").out

C7_Witness ==
    /\ usink.attempts = 1
    /\ ~usink.err
    /\ Len(s) = 9
    /\ usink.out = <<[w |-> "ln", tok |-> [ty |-> "UniversalString", text |-> <<1048792, 216>>]]>>

====
